---- MODULE Spec2Model ----
(***************************************************************************)
(* Model of src/bin/prazi.rs: the registry catalog (Registry::read and     *)
(* Registry::update), the bounded fetch stage (Registry::download_src),   *)
(* and the rayon-parallel transform stages (validate_manifests,           *)
(* rewrite_manifests, compile, build_callgraph), driven by main.          *)
(*                                                                         *)
(* Strings are sequences of tokens, so that format! is concatenation and  *)
(* two different (name, version) pairs can be compared path by path.      *)
(* The filesystem is a function from the (kernel-normalised) paths of the *)
(* directory trees that exist to a record of what the tree holds.         *)
(***************************************************************************)
EXTENDS Integers, Sequences, FiniteSets, TLC

VARIABLES
    index,      \* the crates.io index on disk: Seq of [name, versions]
    upstream,   \* identifiers whose published archive holds Cargo.toml.orig
    cfg,        \* conf.ini and the command line: [latest_only, update, cmd]
    pc,         \* position of main
    list,       \* Registry.list
    fs,         \* the storage root: path |-> tree
    marked0,    \* the trees that held Cargo.toml.orig when the stage began
    st,         \* per catalog position: the position of that item's task
    exit,       \* per catalog position: output.status of its subprocess
    cwd,        \* per catalog position: did current_dir exist at spawn
    report,     \* per catalog position: the line the task printed
    wrote,      \* per catalog position: paths the task has written
    ret         \* the Result download_src returned

vars == <<index, upstream, cfg, pc, list, fs, marked0, st, exit, cwd, report, wrote, ret>>

----------------------------------------------------------------------------
(* Bounds of the model *)

\* rayon worker threads that run tasks of a parallel stage at the same time
Workers == 2
\* most *.bc files a build leaves in target/debug/deps
MaxBc == 2
\* most versions of one crate in the enumerated indexes
MaxVersions == 2
\* versions of each of the two crates the fetch stage is run over
FetchVersions == 3

----------------------------------------------------------------------------
(* Program constants *)

N == 5

CRATES_ROOT == <<"https://crates-io.s3-us-west-1.amazonaws.com/crates">>

\* [storage] path of conf.ini: an absolute path
PRAZI_DIR == <<"/", "prazi">>

----------------------------------------------------------------------------
(* Strings and paths *)

RECURSIVE Flatten(_)
Flatten(ss) == IF ss = <<>> THEN <<>> ELSE Head(ss) \o Flatten(Tail(ss))

Reverse(s) == [i \in 1..Len(s) |-> s[Len(s) + 1 - i]]

\* What the kernel makes of a path string: runs of "/" are one separator.
RECURSIVE Normalize(_)
Normalize(p) ==
    IF Len(p) < 2 THEN p
    ELSE IF p[1] = "/" /\ p[2] = "/" THEN Normalize(Tail(p))
    ELSE <<p[1]>> \o Normalize(Tail(p))

\* p is q or lies inside the tree rooted at q
Inside(p, q) ==
    /\ Len(q) <= Len(p)
    /\ SubSeq(p, 1, Len(q)) = q
    /\ (Len(p) = Len(q) \/ p[Len(q) + 1] = "/")

PraziCrate(n, v) == [name |-> n, version |-> v]

url_src(k) ==
    CRATES_ROOT \o <<"/">> \o k.name \o <<"/">> \o k.name \o <<"-">> \o k.version
        \o <<".crate">>

\* as if the version were left out of the workspace path
dir_noversion(k) == PRAZI_DIR \o <<"/", "crates", "/", "reg", "/">> \o k.name

dir(k) ==
    PRAZI_DIR \o <<"/", "crates", "/", "reg", "/">> \o k.name \o <<"/">> \o k.version

dir_src(k) == PRAZI_DIR \o <<"/", "crates", "/", "reg", "/">> \o k.name

\* the directory Archive::unpack(tar_dir) creates for a crate archive, whose
\* members all lie under {name}-{version}/
unpacked_dir(k) == dir_src(k) \o <<"/">> \o k.name \o <<"-">> \o k.version

\* the source path handed to fs::rename
rename_from(k) == <<"/">> \o dir_src(k) \o <<"/">> \o k.name \o <<"-">> \o k.version

Exists(p) == Normalize(p) \in DOMAIN fs

----------------------------------------------------------------------------
(* The index and the catalog *)

\* crate names: letters first, then letters, digits, "-" and "_"
Names == {<<"a">>, <<"b">>, <<"a", "-", "1">>}
\* version strings: a digit first
VersionStrings == <<  <<"1">>, <<"2">>, <<"3">>, <<"4">>, <<"5">> >>

\* the versions file of a crate: v versions in publishing order, those in
\* yanked withdrawn
Versions(v, yanked) ==
    [i \in 1..v |-> [version |-> VersionStrings[i], yanked |-> i \in yanked]]

Crate(n, v, yanked) == [name |-> n, versions |-> Versions(v, yanked)]

\* Crate::latest_version of crates_index: the last line of the versions file
latest_version(krate) == krate.versions[Len(krate.versions)]

config_latest_only == cfg.latest_only

\* the entries Registry::read pushes for one crate
read_crate_all(krate) ==
    [i \in 1..Len(krate.versions) |->
        PraziCrate(krate.name, Reverse(krate.versions)[i].version)]

read_crate(krate) ==
    IF config_latest_only
    THEN << PraziCrate(krate.name, latest_version(krate).version) >>
    ELSE read_crate_all(krate)

read(l) == l \o Flatten([c \in 1..Len(index) |-> read_crate(index[c])])

\* the entries Registry::update pushes for one crate
update_crate(krate) ==
    [i \in 1..Len(krate.versions) |->
        PraziCrate(krate.name, Reverse(krate.versions)[i].version)]

update(l) == l \o Flatten([c \in 1..Len(index) |-> update_crate(index[c])])

----------------------------------------------------------------------------
(* main: the catalog part *)

Commands == {"download", "validate", "rewrite", "build-callgraphs", "build-crates"}

NoTasks == <<>>

\* a line a task prints, and whether the captured stderr is printed after it
Report(msg, stderr) == [msg |-> msg, stderr |-> stderr]

NoReport == Report("none", FALSE)

FreshTasks(l, v) == [i \in 1..Len(l) |-> v]

\* main, line 318: a new process; the storage root is what earlier runs left
Process(c) ==
    /\ cfg' = c
    /\ pc' = "start"
    /\ list' = <<>>
    /\ marked0' = {}
    /\ st' = NoTasks /\ exit' = NoTasks /\ cwd' = NoTasks
    /\ report' = NoTasks /\ wrote' = NoTasks
    /\ ret' = "none"

\* as if the Err of retrieve_or_update were ignored
OnIndexFailure_ignored == "stage"

\* index.retrieve_or_update().expect(..) on an Err: the process panics,
\* before the first push
OnIndexFailure == "panicked"

\* main, lines 343-346: --update given
MainUpdate ==
    /\ pc = "start" /\ cfg.update
    /\ \/ /\ list' = update(list)
          /\ pc' = "dispatch"
       \/ \* retrieve_or_update fails: expect() panics
          /\ pc' = OnIndexFailure
          /\ UNCHANGED list
    /\ UNCHANGED <<index, upstream, marked0, cfg, fs, st, exit, cwd, report, wrote, ret>>

MainNoUpdate ==
    /\ pc = "start" /\ ~cfg.update
    /\ pc' = "dispatch"
    /\ UNCHANGED <<index, upstream, marked0, cfg, list, fs, st, exit, cwd, report, wrote, ret>>

\* main, lines 348-376: the subcommand's reg.read()
MainRead ==
    /\ pc = "dispatch" /\ cfg.cmd \in Commands
    /\ \/ /\ list' = read(list)
          /\ pc' = "stage"
          /\ marked0' = {p \in DOMAIN fs : fs[p].orig}
          /\ st' = FreshTasks(list', "idle")
          /\ exit' = FreshTasks(list', "none")
          /\ cwd' = FreshTasks(list', "none")
          /\ report' = FreshTasks(list', NoReport)
          /\ wrote' = FreshTasks(list', {})
       \/ \* retrieve_or_update fails: expect() panics
          /\ pc' = OnIndexFailure
          /\ UNCHANGED <<list, marked0, st, exit, cwd, report, wrote>>
    /\ UNCHANGED <<index, upstream, cfg, fs, ret>>

\* main with no subcommand: falls through every if let
MainNoCommand ==
    /\ pc = "dispatch" /\ cfg.cmd = "none"
    /\ pc' = "done"
    /\ UNCHANGED <<index, upstream, marked0, cfg, list, fs, st, exit, cwd, report, wrote, ret>>

----------------------------------------------------------------------------
(* The storage root *)

\* an unpacked source tree: does it hold Cargo.toml.orig, how many *.bc
\* files lie in target/debug/deps, and can that directory be read (the files
\* of a directory that cannot be read are not counted)
Tree(orig) == [orig |-> orig, bc |-> 0, deps_ok |-> TRUE]

\* Archive::unpack of a crate archive into tar_dir: the members are written
\* over what is there, and a file the archive does not hold stays
Unpack(f, k, orig) ==
    LET p == Normalize(unpacked_dir(k))
        t == IF p \in DOMAIN f THEN [f[p] EXCEPT !.orig = @ \/ orig] ELSE Tree(orig)
    IN  [q \in DOMAIN f \cup {p} |-> IF q = p THEN t ELSE f[q]]

\* fs::rename succeeds when the source exists and the target does not (the
\* target of a directory rename may only be an empty directory, and a source
\* tree is never empty)
\* as if a rename replaced the directory at the target
CanRename_replacing(f, src, dst) == Normalize(src) \in DOMAIN f

CanRename(f, src, dst) ==
    /\ Normalize(src) \in DOMAIN f
    /\ Normalize(dst) \notin DOMAIN f

\* as if the tree were copied to the target and the source left
Rename_copy(f, src, dst) ==
    LET s == Normalize(src)
        d == Normalize(dst)
    IN  [q \in DOMAIN f \cup {d} |-> IF q = d THEN f[s] ELSE f[q]]

Rename(f, src, dst) ==
    LET s == Normalize(src)
        d == Normalize(dst)
    IN  [q \in (DOMAIN f \ {s}) \cup {d} |-> IF q = d THEN f[s] ELSE f[q]]

\* as if remove_dir_all were handed the storage root
RemoveDirAll_root(f, p) == [q \in {} |-> f[q]]

\* fs::remove_dir_all
RemoveDirAll(f, p) == [q \in DOMAIN f \ {Normalize(p)} |-> f[q]]

----------------------------------------------------------------------------
(* Registry::download_src *)

Tasks == DOMAIN st

\* the futures in the queue of buffer_unordered: a future leaves the queue
\* when its closure has returned
InFlight == {i \in Tasks : st[i] \in {"send", "body", "untar"}}

\* as if the stream were buffered without a ceiling
BufferHasRoom_unbounded == TRUE

\* buffer_unordered(N): a future is pulled from the stream only while fewer
\* than N are in the queue
BufferHasRoom == Cardinality(InFlight) < N

\* BufferUnordered::poll first fills the queue from the stream and only then
\* polls the queued futures
Filled == ~BufferHasRoom \/ \A i \in Tasks : st[i] # "idle"

Fetching == pc = "stage" /\ cfg.cmd = "download"

\* the items whose closure has unpacked and has not yet renamed
InClosure == {i \in Tasks : st[i] = "untar"}

\* as if the futures were polled by the threads of a pool
LoopThreadFree_pool == TRUE

\* core.run(work) polls every future on the thread that calls it: while that
\* thread is inside the closure of one item nothing else is polled
LoopThreadFree == InClosure = {}

\* the stream yields the next catalog entry and its request is sent
FetchStart(i) ==
    /\ Fetching
    /\ LoopThreadFree
    /\ st[i] = "idle"
    /\ \A j \in Tasks : j < i => st[j] # "idle"
    /\ BufferHasRoom
    /\ st' = [st EXCEPT ![i] = "send"]
    /\ UNCHANGED <<index, upstream, marked0, cfg, pc, list, fs, exit, cwd, report, wrote, ret>>

\* send() resolves with a response, of whatever status
FetchResponse(i) ==
    /\ Fetching
    /\ LoopThreadFree
    /\ st[i] = "send"
    /\ st' = [st EXCEPT ![i] = "body"]
    /\ UNCHANGED <<index, upstream, marked0, cfg, pc, list, fs, exit, cwd, report, wrote, ret>>

\* send() or concat2() resolves with an error: the stream yields Err, for_each
\* ends, core.run(work)? returns Err and the queued futures are dropped
FetchNetError(i) ==
    /\ Fetching
    /\ LoopThreadFree
    /\ st[i] \in {"send", "body"}
    /\ Filled
    /\ st' = [j \in Tasks |->
                IF j = i THEN "failed"
                ELSE IF st[j] \in {"send", "body"} THEN "dropped" ELSE st[j]]
    /\ pc' = "returned"
    /\ ret' = "Err"
    /\ UNCHANGED <<index, upstream, marked0, cfg, list, fs, exit, cwd, report, wrote>>

\* as if the stream were buffered(N), which yields in the order of the stream
Ready_ordered(i) ==
    /\ st[i] = "body"
    /\ \A j \in Tasks : j < i => st[j] \notin {"send", "body"}

\* FuturesUnordered polls every queued future that was woken: whichever has
\* its body runs its closure
Ready(i) == st[i] = "body"

\* what becomes of the process when the closure of one item panics
PanicInClosure == "panicked"

\* the body is complete and the closure of map begins, lines 172-175:
\* archive.unpack(&tar_dir).unwrap()
FetchUntar(i) ==
    /\ Fetching
    /\ LoopThreadFree
    /\ Ready(i)
    /\ Filled
    /\ LET k == list[i]
       IN \/ \* not a gzipped tar (the body of a non-200 response, a
             \* truncated body): unpack(..).unwrap() panics
             /\ st' = [st EXCEPT ![i] = "failed"]
             /\ pc' = PanicInClosure
             /\ UNCHANGED <<fs, wrote>>
          \/ \* an archive without the {name}-{version} member, and nothing
             \* under that name: the closure goes on to its rename
             /\ ~Exists(rename_from(k))
             /\ st' = [st EXCEPT ![i] = "untar"]
             /\ UNCHANGED <<pc, fs, wrote>>
          \/ /\ fs' = Unpack(fs, k, k \in upstream)
             /\ wrote' = [wrote EXCEPT ![i] = @ \cup {Normalize(unpacked_dir(k))}]
             /\ st' = [st EXCEPT ![i] = "untar"]
             /\ UNCHANGED pc
    /\ UNCHANGED <<index, upstream, marked0, cfg, list, exit, cwd, report, ret>>

\* the closure goes on, lines 176-180: fs::rename(..).unwrap() and the report
FetchRename(i) ==
    /\ Fetching
    /\ st[i] = "untar"
    /\ LET k == list[i]
       IN \/ \* nothing to rename, or the final path is taken:
             \* rename(..).unwrap() panics
             /\ ~CanRename(fs, rename_from(k), dir(k))
             /\ st' = [st EXCEPT ![i] = "failed"]
             /\ pc' = PanicInClosure
             /\ UNCHANGED <<fs, wrote, report>>
          \/ /\ CanRename(fs, rename_from(k), dir(k))
             /\ fs' = Rename(fs, rename_from(k), dir(k))
             /\ wrote' = [wrote EXCEPT ![i] =
                    @ \cup {Normalize(rename_from(k)), Normalize(dir(k))}]
             /\ st' = [st EXCEPT ![i] = "done"]
             /\ report' = [report EXCEPT ![i] = Report("Untared", FALSE)]
             /\ UNCHANGED pc
    /\ UNCHANGED <<index, upstream, marked0, cfg, list, exit, cwd, ret>>

\* the stream is exhausted and the queue is empty: core.run returns Ok
FetchReturn ==
    /\ Fetching
    /\ \A i \in Tasks : st[i] = "done"
    /\ pc' = "returned"
    /\ ret' = "Ok"
    /\ UNCHANGED <<index, upstream, marked0, cfg, list, fs, st, exit, cwd, report, wrote>>

\* main, lines 350-351: reg.download_src().unwrap()
MainAfterDownload ==
    /\ pc = "returned"
    /\ pc' = IF ret = "Ok" THEN "done" ELSE "panicked"
    /\ UNCHANGED <<index, upstream, marked0, cfg, list, fs, st, exit, cwd, report, wrote, ret>>

download_src ==
    \/ \E i \in Tasks : FetchStart(i)
    \/ \E i \in Tasks : FetchResponse(i)
    \/ \E i \in Tasks : FetchNetError(i)
    \/ \E i \in Tasks : FetchUntar(i)
    \/ \E i \in Tasks : FetchRename(i)
    \/ FetchReturn
    \/ MainAfterDownload

----------------------------------------------------------------------------
(* The parallel stages: self.list.par_iter().for_each(..) *)

Stage(c) == pc = "stage" /\ cfg.cmd = c

InProgress == {"checked", "running", "unpack", "remove", "rename"}

Terminal == {"skipped", "nobitcode", "ok", "failed", "done", "panicked"}

Busy == {i \in Tasks : st[i] \in InProgress}

\* a worker thread of the pool takes an item nobody has taken
CanBegin(i) == st[i] = "idle" /\ Cardinality(Busy) < Workers

\* as if the exit status were unwrapped
OnNonZero_unwrap == "panicked"

\* the else branch of if output.status.success(): the task prints and ends
OnNonZero == "failed"

\* Command::output(): the child is spawned in current_dir. A directory that
\* is not there, or a tool that cannot be executed, makes output() an Err and
\* expect() panics.
Spawn(i) ==
    /\ st[i] = "checked"
    /\ cwd' = [cwd EXCEPT ![i] = IF Exists(dir(list[i])) THEN "present" ELSE "absent"]
    /\ \/ /\ Exists(dir(list[i]))
          /\ st' = [st EXCEPT ![i] = "running"]
       \/ st' = [st EXCEPT ![i] = "panicked"]

\* what a finished subprocess may have left in its working directory
ToolLeaves(c, t) ==
    IF c = "build-crates"
    THEN {[t EXCEPT !.bc = n, !.deps_ok = TRUE] : n \in 0..MaxBc}
            \cup {[t EXCEPT !.bc = 0, !.deps_ok = FALSE]}
    ELSE {t}

\* the subprocess ends; output.status and what it wrote
Exited(i, c, success) ==
    /\ st[i] = "running"
    /\ exit' = [exit EXCEPT ![i] = IF success THEN "zero" ELSE "nonzero"]
    /\ LET d == Normalize(dir(list[i]))
       IN IF d \in DOMAIN fs
          THEN \E t \in ToolLeaves(c, fs[d]) : fs' = [fs EXCEPT ![d] = t]
          ELSE UNCHANGED fs

----------------------------------------------------------------------------
(* Registry::validate_manifests *)

ValidateCheck(i) ==
    /\ Stage("validate")
    /\ CanBegin(i)
    /\ st' = [st EXCEPT ![i] = IF Exists(dir(list[i])) THEN "checked" ELSE "skipped"]
    /\ UNCHANGED <<index, upstream, marked0, cfg, pc, list, fs, exit, cwd, report, wrote, ret>>

ValidateSpawn(i) ==
    /\ Stage("validate")
    /\ Spawn(i)
    /\ UNCHANGED <<index, upstream, marked0, cfg, pc, list, fs, exit, report, wrote, ret>>

ValidateExit(i) ==
    /\ Stage("validate")
    /\ \E success \in BOOLEAN :
          /\ Exited(i, "validate", success)
          /\ IF success
             THEN /\ st' = [st EXCEPT ![i] = "ok"]
                  /\ UNCHANGED report
             ELSE /\ st' = [st EXCEPT ![i] = OnNonZero]
                  /\ report' = [report EXCEPT ![i] = Report("Not valid manifest", TRUE)]
    /\ UNCHANGED <<index, upstream, marked0, cfg, pc, list, cwd, wrote, ret>>

validate_manifests ==
    \/ \E i \in Tasks : ValidateCheck(i)
    \/ \E i \in Tasks : ValidateSpawn(i)
    \/ \E i \in Tasks : ValidateExit(i)

----------------------------------------------------------------------------
(* Registry::rewrite_manifests *)

\* as if the marker were not consulted
NeedsRewrite_nomarker(k) == Exists(dir(k))

\* the guard of line 219
NeedsRewrite(k) ==
    /\ Exists(dir(k))
    /\ ~fs[Normalize(dir(k))].orig

RewriteCheck(i) ==
    /\ Stage("rewrite")
    /\ CanBegin(i)
    /\ st' = [st EXCEPT ![i] = IF NeedsRewrite(list[i]) THEN "checked" ELSE "skipped"]
    /\ UNCHANGED <<index, upstream, marked0, cfg, pc, list, fs, exit, cwd, report, wrote, ret>>

RewriteSpawn(i) ==
    /\ Stage("rewrite")
    /\ Spawn(i)
    /\ UNCHANGED <<index, upstream, marked0, cfg, pc, list, fs, exit, report, wrote, ret>>

RewriteExit(i) ==
    /\ Stage("rewrite")
    /\ \E success \in BOOLEAN :
          /\ Exited(i, "rewrite", success)
          /\ IF success
             THEN \* lines 229-236: is target/package/{name}-{version}.crate
                  \* there (the dry run wrote it, and the workspace is still
                  \* there); if so it is opened
                  /\ \E new_file \in {b \in BOOLEAN : b => Exists(dir(list[i]))} :
                        st' = [st EXCEPT ![i] = IF new_file THEN "unpack" ELSE "done"]
                  /\ UNCHANGED report
             ELSE /\ st' = [st EXCEPT ![i] = OnNonZero]
                  /\ report' = [report EXCEPT ![i] =
                        Report("Package not publishable with the running Cargo version",
                               FALSE)]
    /\ UNCHANGED <<index, upstream, marked0, cfg, pc, list, cwd, wrote, ret>>

\* line 239: archive.unpack(&tar_dir); the repackaged archive holds
\* Cargo.toml.orig when the cargo that packaged it writes one
RewriteUnpack(i) ==
    /\ Stage("rewrite")
    /\ st[i] = "unpack"
    /\ \E orig \in BOOLEAN : fs' = Unpack(fs, list[i], orig)
    /\ wrote' = [wrote EXCEPT ![i] = @ \cup {Normalize(unpacked_dir(list[i]))}]
    /\ st' = [st EXCEPT ![i] = "remove"]
    /\ UNCHANGED <<index, upstream, marked0, cfg, pc, list, exit, cwd, report, ret>>

\* line 240: fs::remove_dir_all(&dst_dir).unwrap()
RewriteRemove(i) ==
    /\ Stage("rewrite")
    /\ st[i] = "remove"
    /\ \/ /\ Exists(dir(list[i]))
          /\ fs' = RemoveDirAll(fs, dir(list[i]))
          /\ wrote' = [wrote EXCEPT ![i] = @ \cup {Normalize(dir(list[i]))}]
          /\ st' = [st EXCEPT ![i] = "rename"]
       \/ \* the directory is not there: unwrap() panics
          /\ ~Exists(dir(list[i]))
          /\ st' = [st EXCEPT ![i] = "panicked"]
          /\ UNCHANGED <<fs, wrote>>
    /\ UNCHANGED <<index, upstream, marked0, cfg, pc, list, exit, cwd, report, ret>>

\* lines 241-245: fs::rename(..).unwrap() and the report
RewriteRename(i) ==
    /\ Stage("rewrite")
    /\ st[i] = "rename"
    /\ LET k == list[i]
       IN \/ /\ CanRename(fs, rename_from(k), dir(k))
             /\ fs' = Rename(fs, rename_from(k), dir(k))
             /\ wrote' = [wrote EXCEPT ![i] =
                    @ \cup {Normalize(rename_from(k)), Normalize(dir(k))}]
             /\ st' = [st EXCEPT ![i] = "done"]
             /\ report' = [report EXCEPT ![i] = Report("Repackaged", FALSE)]
          \/ \* the source is gone, the target is taken, or the system call
             \* fails (EACCES, EIO): unwrap() panics
             /\ st' = [st EXCEPT ![i] = "panicked"]
             /\ UNCHANGED <<fs, wrote, report>>
    /\ UNCHANGED <<index, upstream, marked0, cfg, pc, list, exit, cwd, ret>>

rewrite_manifests ==
    \/ \E i \in Tasks : RewriteCheck(i)
    \/ \E i \in Tasks : RewriteSpawn(i)
    \/ \E i \in Tasks : RewriteExit(i)
    \/ \E i \in Tasks : RewriteUnpack(i)
    \/ \E i \in Tasks : RewriteRemove(i)
    \/ \E i \in Tasks : RewriteRename(i)

----------------------------------------------------------------------------
(* Registry::compile *)

CompileCheck(i) ==
    /\ Stage("build-crates")
    /\ CanBegin(i)
    /\ st' = [st EXCEPT ![i] = IF Exists(dir(list[i])) THEN "checked" ELSE "skipped"]
    /\ UNCHANGED <<index, upstream, marked0, cfg, pc, list, fs, exit, cwd, report, wrote, ret>>

CompileSpawn(i) ==
    /\ Stage("build-crates")
    /\ Spawn(i)
    /\ UNCHANGED <<index, upstream, marked0, cfg, pc, list, fs, exit, report, wrote, ret>>

CompileExit(i) ==
    /\ Stage("build-crates")
    /\ \E success \in BOOLEAN :
          /\ Exited(i, "build-crates", success)
          /\ IF success
             THEN /\ st' = [st EXCEPT ![i] = "ok"]
                  /\ report' = [report EXCEPT ![i] = Report("build done!", FALSE)]
             ELSE /\ st' = [st EXCEPT ![i] = OnNonZero]
                  /\ report' = [report EXCEPT ![i] = Report("build failed", TRUE)]
    /\ UNCHANGED <<index, upstream, marked0, cfg, pc, list, cwd, wrote, ret>>

compile ==
    \/ \E i \in Tasks : CompileCheck(i)
    \/ \E i \in Tasks : CompileSpawn(i)
    \/ \E i \in Tasks : CompileExit(i)

----------------------------------------------------------------------------
(* PraziCrate::has_bitcode, PraziCrate::bitcode_path, Registry::build_callgraph *)

\* glob("{dir}/target/debug/deps/*.bc"): the pattern's one wildcard is in its
\* last component, so the iterator yields Ok(path) for every match when the
\* deps directory can be read and a single Err when it cannot. TRUE stands
\* for an Ok entry and FALSE for an Err.
glob(k) ==
    LET d == Normalize(dir(k))
    IN  IF d \notin DOMAIN fs THEN <<>>
        ELSE IF ~fs[d].deps_ok THEN <<FALSE>>
        ELSE [j \in 1..fs[d].bc |-> TRUE]

\* as if one match or more were asked for
has_bitcode_any(k) == Len(glob(k)) >= 1

has_bitcode(k) == Len(glob(k)) = 1

IsOk(v) == v

\* the vector bitcode_path indexes at [0]
bitcode_path(k) == SelectSeq(glob(k), IsOk)

CallgraphCheck(i) ==
    /\ Stage("build-callgraphs")
    /\ CanBegin(i)
    /\ IF has_bitcode(list[i])
       THEN /\ st' = [st EXCEPT ![i] = "checked"]
            /\ UNCHANGED report
       ELSE /\ st' = [st EXCEPT ![i] = "nobitcode"]
            /\ report' = [report EXCEPT ![i] = Report("no bitcode", FALSE)]
    /\ UNCHANGED <<index, upstream, marked0, cfg, pc, list, fs, exit, cwd, wrote, ret>>

\* lines 298-303: the arguments are built, bitcode_path() among them, and
\* then the child is spawned; res[0] of an empty vector panics
CallgraphSpawn(i) ==
    /\ Stage("build-callgraphs")
    /\ IF bitcode_path(list[i]) = <<>>
       THEN /\ st[i] = "checked"
            /\ st' = [st EXCEPT ![i] = "panicked"]
            /\ UNCHANGED cwd
       ELSE Spawn(i)
    /\ UNCHANGED <<index, upstream, marked0, cfg, pc, list, fs, exit, report, wrote, ret>>

CallgraphExit(i) ==
    /\ Stage("build-callgraphs")
    /\ \E success \in BOOLEAN :
          /\ Exited(i, "build-callgraphs", success)
          /\ IF success
             THEN /\ st' = [st EXCEPT ![i] = "ok"]
                  /\ report' = [report EXCEPT ![i] = Report("callgraph built", FALSE)]
             ELSE /\ st' = [st EXCEPT ![i] = OnNonZero]
                  /\ report' = [report EXCEPT ![i] = Report("callgraph failed failed", TRUE)]
    /\ UNCHANGED <<index, upstream, marked0, cfg, pc, list, cwd, wrote, ret>>

build_callgraph ==
    \/ \E i \in Tasks : CallgraphCheck(i)
    \/ \E i \in Tasks : CallgraphSpawn(i)
    \/ \E i \in Tasks : CallgraphExit(i)

----------------------------------------------------------------------------
(* The end of a parallel stage, and the next run *)

ParallelStage == pc = "stage" /\ cfg.cmd \in Commands \ {"download"}

\* for_each returns once every item has been processed
StageReturn ==
    /\ ParallelStage
    /\ \A i \in Tasks : st[i] \in Terminal \ {"panicked"}
    /\ pc' = "done"
    /\ UNCHANGED <<index, upstream, marked0, cfg, list, fs, st, exit, cwd, report, wrote, ret>>

\* a task has panicked: the pool lets the tasks that run come to their end,
\* may or may not run the items nobody has taken, and resumes the panic in
\* main
StagePanic ==
    /\ ParallelStage
    /\ \E i \in Tasks : st[i] = "panicked"
    /\ Busy = {}
    /\ pc' = "panicked"
    /\ UNCHANGED <<index, upstream, marked0, cfg, list, fs, st, exit, cwd, report, wrote, ret>>

Cfgs(lo) == [latest_only : {lo}, update : BOOLEAN, cmd : Commands \cup {"none"}]

\* the operator runs the program again, on the storage root as it is
Invoke ==
    /\ pc \in {"done", "panicked"}
    /\ \E c \in Cfgs(cfg.latest_only) : Process(c)
    /\ UNCHANGED <<index, upstream, fs>>

----------------------------------------------------------------------------
(* The fetch stage over an index of two crates *)

FetchIndex ==
    << Crate(<<"a">>, FetchVersions, {}), Crate(<<"b">>, FetchVersions, {2}) >>

InitFetch ==
    /\ index = FetchIndex
    /\ upstream = {}
    /\ cfg \in [latest_only : BOOLEAN, update : BOOLEAN, cmd : {"download"}]
    /\ pc = "start"
    /\ list = <<>>
    /\ fs = <<>> /\ marked0 = {}
    /\ st = NoTasks /\ exit = NoTasks /\ cwd = NoTasks
    /\ report = NoTasks /\ wrote = NoTasks
    /\ ret = "none"

NextFetch ==
    \/ MainUpdate
    \/ MainNoUpdate
    \/ MainRead
    \/ download_src

SpecFetch == InitFetch /\ [][NextFetch]_vars

----------------------------------------------------------------------------
(* The whole program, run after run, over one crate of two versions, with  *)
(* latest_only = true in conf.ini                                          *)

PipelineIndex == << Crate(<<"a">>, 2, {1}) >>

Init ==
    /\ index = PipelineIndex
    /\ upstream \in SUBSET {PraziCrate(<<"a">>, VersionStrings[1])}
    /\ cfg \in Cfgs(TRUE)
    /\ pc = "start"
    /\ list = <<>>
    /\ fs = <<>> /\ marked0 = {}
    /\ st = NoTasks /\ exit = NoTasks /\ cwd = NoTasks
    /\ report = NoTasks /\ wrote = NoTasks
    /\ ret = "none"

Next ==
    \/ MainUpdate
    \/ MainNoUpdate
    \/ MainRead
    \/ MainNoCommand
    \/ download_src
    \/ validate_manifests
    \/ rewrite_manifests
    \/ compile
    \/ build_callgraph
    \/ StageReturn
    \/ StagePanic
    \/ Invoke

Spec == Init /\ [][Next]_vars

----------------------------------------------------------------------------
(* The catalog builds of main, over every index of the bounds *)

CrateFiles(n) ==
    {Crate(n, v, y) : v \in 1..MaxVersions, y \in SUBSET (1..MaxVersions)}

IndexSet ==
    {<<>>}
        \cup {<<a>> : a \in CrateFiles(<<"a">>)}
        \cup {<<a, b>> : a \in CrateFiles(<<"a">>), b \in CrateFiles(<<"b">>)}

InitCatalog ==
    /\ index \in IndexSet
    /\ upstream = {}
    /\ cfg \in Cfgs(TRUE) \cup Cfgs(FALSE)
    /\ pc = "start"
    /\ list = <<>>
    /\ fs = <<>> /\ marked0 = {}
    /\ st = NoTasks /\ exit = NoTasks /\ cwd = NoTasks
    /\ report = NoTasks /\ wrote = NoTasks
    /\ ret = "none"

NextCatalog ==
    \/ MainUpdate
    \/ MainNoUpdate
    \/ MainRead
    \/ MainNoCommand

SpecCatalog == InitCatalog /\ [][NextCatalog]_vars

----------------------------------------------------------------------------
(* The fetch stage: claims C1 to C3, under SpecFetch *)

\* C1: in every reachable state of a fetch run, whatever the size of the
\* catalog, the downloads that have been started and have neither completed
\* nor failed number at most N = 5.
C1_FetchBound == Cardinality(InFlight) <= N

\* C1 happens: N downloads are in flight over a catalog longer than N, one
\* item has completed and another has not been started.
C1_Witness ==
    /\ Fetching
    /\ Len(list) > N
    /\ Cardinality(InFlight) = N
    /\ \E i \in Tasks : st[i] = "done"
    /\ \E i \in Tasks : st[i] = "idle"

\* C2: in the fetch stage the failure of one item fails only that item: the
\* stage is neither aborted nor ended by it, so the run of a stage in which
\* an item has failed is still under way or has completed with Ok.
C2_PerItemIsolation ==
    (cfg.cmd = "download" /\ \E i \in Tasks : st[i] = "failed")
        => /\ pc \in {"stage", "returned", "done"}
           /\ ret # "Err"

\* C3: download_src returns only in a state where every catalog item has
\* completed or failed: none is un-started, none is in flight.
C3_ReturnsWhenAllSettled ==
    pc = "returned" => \A i \in Tasks : st[i] \in {"done", "failed"}

\* C17: nothing but the ceiling orders the completions of a fetch run.
\* Whenever the event loop polls, the next entry of the stream can be
\* requested if fewer than N requests are in flight, whichever of the
\* earlier ones have completed; a request that was sent can be answered; the
\* closure of every item whose body has arrived can run, wherever the item
\* is in the catalog and whatever else is in flight; and it completes when
\* the final workspace of the item is free.
C17_CompletionOrderFree ==
    Fetching =>
        \A i \in Tasks :
            /\ (LoopThreadFree /\ st[i] = "idle" /\ Cardinality(InFlight) < N
                    /\ \A j \in Tasks : j < i => st[j] # "idle")
                => ENABLED FetchStart(i)
            /\ (LoopThreadFree /\ st[i] = "send") => ENABLED FetchResponse(i)
            /\ (LoopThreadFree /\ st[i] = "body" /\ Filled)
                => ENABLED (st' = [st EXCEPT ![i] = "untar"] /\ FetchUntar(i))
            /\ (st[i] = "untar" /\ ~Exists(dir(list[i]))
                    /\ Normalize(unpacked_dir(list[i])) \in wrote[i])
                => ENABLED (st' = [st EXCEPT ![i] = "done"] /\ FetchRename(i))

\* C17 happens: an item has completed while an item that precedes it in the
\* catalog by more than N is still in flight, and an item between the two
\* has completed as well.
C17_Witness ==
    /\ Fetching
    /\ \E i, j, m \in Tasks :
          /\ j > i + N
          /\ i < m /\ m < j
          /\ st[i] \in {"send", "body"}
          /\ st[m] = "done"
          /\ st[j] = "done"

----------------------------------------------------------------------------
(* The catalog: claims C8 and C9, under SpecCatalog *)

\* the catalog a build derives from the index when it starts from nothing
Derived == read(<<>>)

\* C8: the catalog a stage iterates is exactly the sequence the latest build
\* derived from the index, with nothing left over from an earlier build, so
\* no (name, version) is at two positions of it.
C8_CatalogIsLatestBuild ==
    pc = "stage"
        => /\ list = Derived
           /\ \A i, j \in DOMAIN list : list[i] = list[j] => i = j

Positions(k) == {i \in DOMAIN list : list[i] = k}

\* the place of a version in the versions file of its crate; later is newer
Published(krate, v) ==
    CHOOSE n \in DOMAIN krate.versions : krate.versions[n].version = v

\* C9: after the load the catalog has, with latest-only configured, exactly
\* one entry per package name of the index, of its latest published version;
\* otherwise exactly one entry per published version of every package, the
\* yanked ones included, the versions of a package most recent first.
C9_CatalogLoad ==
    pc = "stage" =>
        /\ \A i \in DOMAIN list : \E c \in DOMAIN index : list[i].name = index[c].name
        /\ \A c \in DOMAIN index :
            LET krate == index[c]
                entry(n) == PraziCrate(krate.name, krate.versions[n].version)
            IN  IF cfg.latest_only
                THEN /\ Cardinality({i \in DOMAIN list : list[i].name = krate.name}) = 1
                     /\ Cardinality(Positions(entry(Len(krate.versions)))) = 1
                ELSE /\ \A n \in DOMAIN krate.versions :
                            Cardinality(Positions(entry(n))) = 1
                     /\ \A i, j \in DOMAIN list :
                            (i < j /\ list[i].name = krate.name
                                   /\ list[j].name = krate.name)
                                => Published(krate, list[i].version)
                                        > Published(krate, list[j].version)

----------------------------------------------------------------------------
(* The parallel stages: claims C4 to C7 and C10, under Spec *)

TransformRun == cfg.cmd \in Commands \ {"download"} /\ pc \in {"stage", "done"}

\* what a stage asks of an item before it runs its tool for it
Eligible(k) ==
    CASE cfg.cmd = "rewrite" -> NeedsRewrite(k)
      [] cfg.cmd = "build-callgraphs" -> has_bitcode(k)
      [] OTHER -> Exists(dir(k))

\* C4: in validate, rewrite, compile and extract a non-zero exit of the tool
\* for one item does not abort the batch: the task of that item ends with its
\* report, and when the stage returns every item has been processed: none is
\* left untaken, and the tool has been run for every item that still calls
\* for it.
C4_NonZeroExitIsolated ==
    TransformRun =>
        /\ \A i \in Tasks : exit[i] = "nonzero" => st[i] = "failed"
        /\ pc = "done" =>
            /\ \A i \in Tasks : st[i] \in Terminal \ {"panicked"}
            /\ \A i \in Tasks : Eligible(list[i])
                    => \E t \in Tasks : list[t] = list[i] /\ exit[t] # "none"

\* C4 happens: a stage has returned, the tool exited non-zero for one item
\* and was run to a zero exit for another.
C4_Witness ==
    /\ TransformRun /\ pc = "done"
    /\ \E i, j \in Tasks :
          /\ list[i] # list[j]
          /\ exit[i] = "nonzero"
          /\ exit[j] = "zero"

\* C5: an item whose workspace held Cargo.toml.orig when a rewrite run began
\* has no subprocess run for it in that run, and no task of the run writes
\* its workspace: the marker is still there, so every later run skips it too.
C5_RewriteSkipsMarked ==
    (cfg.cmd = "rewrite" /\ pc \in {"stage", "done", "panicked"}) =>
        \A i \in Tasks :
            Normalize(dir(list[i])) \in marked0 =>
                /\ st[i] \in {"idle", "skipped"}
                /\ exit[i] = "none" /\ cwd[i] = "none"
                /\ \A t \in Tasks : \A p \in wrote[t] :
                        ~Inside(p, Normalize(dir(list[i])))
                            /\ ~Inside(Normalize(dir(list[i])), p)
                /\ Exists(dir(list[i])) /\ fs[Normalize(dir(list[i]))].orig

\* C5 happens: a rewrite run has returned in which one item was skipped for
\* a marker that an earlier rewrite had set (its published archive has none)
\* while the tool was run for another.
C5_Witness ==
    /\ cfg.cmd = "rewrite" /\ pc = "done"
    /\ \E i, j \in Tasks :
          /\ Normalize(dir(list[i])) \in marked0
          /\ list[i] \notin upstream
          /\ st[i] = "skipped"
          /\ exit[j] = "zero"

\* the *.bc files of an item that can be found
Artifacts(k) == Len(bitcode_path(k))

\* C6: in the extract stage an item with no matching artifact is reported as
\* "no bitcode" and the analysis tool is never run for it; for an item with
\* exactly one the tool is run.
C6_ExtractPrecondition ==
    (cfg.cmd = "build-callgraphs" /\ pc \in {"stage", "done", "panicked"}) =>
        \A i \in Tasks :
            st[i] \in Terminal =>
                /\ Artifacts(list[i]) = 0
                    => report[i].msg = "no bitcode" /\ cwd[i] = "none"
                /\ Artifacts(list[i]) = 1 => cwd[i] # "none"

\* C7: in every parallel stage, at the moment the subprocess of an item is
\* spawned the final workspace of the item exists.
C7_WorkspaceThereAtSpawn == \A i \in Tasks : cwd[i] # "absent"

Overlap(p, q) == Inside(p, q) \/ Inside(q, p)

AllIdentifiers ==
    {PraziCrate(n, VersionStrings[v]) : n \in Names, v \in DOMAIN VersionStrings}

\* the trees the tasks of an identifier unpack into, remove and rename
WritePaths(k) ==
    {Normalize(unpacked_dir(k)), Normalize(rename_from(k)), Normalize(dir(k))}

\* the paths of two different identifiers do not overlap
PathsDisjoint ==
    \A k1, k2 \in AllIdentifiers :
        k1 # k2 =>
            \A p \in WritePaths(k1) : \A q \in WritePaths(k2) : ~Overlap(p, q)

\* C10: the paths written by the tasks of two different identifiers, in the
\* fetch stage and in the rewrite stage, are disjoint: every path a task
\* writes is one of the paths of its identifier, the paths of two different
\* identifiers do not overlap, and so no path one task has written is, or
\* lies inside, or holds a path a task of another identifier has written.
C10_DisjointWrites ==
    /\ \A i \in Tasks : wrote[i] \subseteq WritePaths(list[i])
    /\ PathsDisjoint
    /\ \A i, j \in Tasks :
            list[i] # list[j] =>
                \A p \in wrote[i] : \A q \in wrote[j] : ~Overlap(p, q)

\* C10 happens: the rewrite tasks of two different identifiers are both
\* between their unpack and their rename.
C10_Witness ==
    /\ cfg.cmd = "rewrite" /\ pc = "stage"
    /\ \E i, j \in Tasks :
          /\ list[i] # list[j]
          /\ st[i] \in {"remove", "rename"}
          /\ st[j] \in {"remove", "rename"}
          /\ wrote[i] # {} /\ wrote[j] # {}

----------------------------------------------------------------------------
(* The mutation sequences: claims C11, C14, C15, C16, under Spec *)

\* the positions of a task inside unpack-then-rename (fetch) and
\* unpack / remove-old / rename-new (rewrite)
MutationStates == {"body", "untar", "unpack", "remove", "rename"}

\* the final workspace of k is across this step what it was
WorkspaceSame(k) ==
    LET d == Normalize(dir(k))
    IN  /\ d \in DOMAIN fs <=> d \in DOMAIN fs'
        /\ d \in DOMAIN fs => fs'[d] = fs[d]

\* C11: every step a task takes inside its mutation sequence, the step that
\* fails between two steps of it included, leaves the final workspace of
\* every other identifier exactly as it was: only the workspace of the item
\* itself can be left half-replaced.
C11_FailureStaysInside ==
    [][\A i \in Tasks :
            (i \in DOMAIN st' /\ st'[i] # st[i] /\ st[i] \in MutationStates)
                => \A k \in AllIdentifiers \ {list[i]} : WorkspaceSame(k)]_vars

\* C11 happens: a rewrite task has panicked after its unpack and its remove,
\* its final workspace is gone and the unpacked tree is still under the
\* staging name, while the workspace of another identifier of the catalog is
\* there.
C11_Witness ==
    /\ cfg.cmd = "rewrite"
    /\ \E i, j \in Tasks :
          /\ list[i] # list[j]
          /\ st[i] = "panicked"
          /\ Normalize(dir(list[i])) \in wrote[i]
          /\ ~Exists(dir(list[i]))
          /\ Exists(unpacked_dir(list[i]))
          /\ Exists(dir(list[j]))

\* C14: the step in which the fetch of an item succeeds, which begins with
\* the final workspace absent, ends with {root}/crates/reg/{name}/{version}
\* there and holding what the archive holds, and with no {name}-{version}
\* under the staging path {root}/crates/reg/{name}.
C14_FetchCommits ==
    [][\A i \in Tasks :
            (Fetching /\ st[i] = "untar" /\ i \in DOMAIN st' /\ st'[i] = "done")
                => LET k == list[i]
                       d == PRAZI_DIR \o <<"/", "crates", "/", "reg", "/">>
                                \o k.name \o <<"/">> \o k.version
                       s == PRAZI_DIR \o <<"/", "crates", "/", "reg", "/">>
                                \o k.name \o <<"/">> \o k.name \o <<"-">> \o k.version
                   IN  /\ d \notin DOMAIN fs
                       /\ d \in DOMAIN fs'
                       /\ k \in upstream => fs'[d].orig
                       /\ fs'[d].bc = 0
                       /\ s \notin DOMAIN fs'
                       /\ report'[i].msg = "Untared"]_vars

\* C14 happens: in a run that found the storage root as earlier runs left
\* it, the fetch of an item has succeeded: its final workspace is there and
\* its staging directory is not.
C14_Witness ==
    /\ cfg.cmd = "download"
    /\ \E i \in Tasks :
          /\ st[i] = "done"
          /\ Exists(dir(list[i]))
          /\ ~Exists(unpacked_dir(list[i]))
          /\ Normalize(dir(list[i])) \in wrote[i]
          /\ \E p \in DOMAIN fs : p # Normalize(dir(list[i]))

\* a task of identifier k is between its remove-old and its rename-new, or
\* has failed there
InWindow(k) ==
    \E t \in Tasks :
        /\ list[t] = k
        /\ \/ st[t] = "rename"
           \/ st[t] = "panicked" /\ Normalize(dir(k)) \in wrote[t]

\* C15: in a rewrite run, a task that failed between its remove-old and its
\* rename-new has left its final workspace absent and the newly unpacked
\* tree under the staging name; and the final workspace of a fetched item
\* (one the run has a marker for, or has begun to rewrite) exists in every
\* state in which no task of it is, or has failed, in that window.
C15_RewriteWindow ==
    (cfg.cmd = "rewrite" /\ pc \in {"stage", "done", "panicked"}) =>
        \A i \in Tasks :
            /\ (st[i] = "panicked" /\ Normalize(dir(list[i])) \in wrote[i])
                => /\ ~Exists(dir(list[i]))
                   /\ Exists(unpacked_dir(list[i]))
            /\ (st[i] \notin {"idle", "skipped"}
                    \/ Normalize(dir(list[i])) \in marked0)
                => Exists(dir(list[i])) \/ InWindow(list[i])

----------------------------------------------------------------------------
(* Reports: claim C12, under Spec *)

\* C12: in validate, rewrite, compile and extract, whenever the tool of an
\* item has exited non-zero the task of the item has printed its failure
\* line followed by the captured standard error of the tool.
C12_FailureReportedWithStderr ==
    TransformRun =>
        \A i \in Tasks :
            exit[i] = "nonzero"
                => /\ report[i].msg # "none"
                   /\ report[i].stderr

----------------------------------------------------------------------------
(* The index cannot be retrieved: claim C13, under Spec *)

\* every entry a build derives from the index is in l
Complete(l) ==
    \A n \in DOMAIN Derived : \E i \in DOMAIN l : l[i] = Derived[n]

\* the run has ended in the expect() of Registry::update or Registry::read
IndexUnavailable == pc = "panicked" /\ st = NoTasks

\* C13: a failure to retrieve or refresh the index ends the run: the step in
\* which it fails creates no task and writes nothing, nothing follows it but
\* a new run of the program, and a stage only ever starts with a catalog
\* that holds every entry the index gives.
C13_IndexFailureIsFatal ==
    [][/\ (pc \in {"start", "dispatch"} /\ pc' = "panicked")
            => st' = NoTasks /\ fs' = fs
       /\ IndexUnavailable => pc' = "start" /\ fs' = fs
       /\ (pc # "stage" /\ pc' = "stage")
            => Complete(list') /\ DOMAIN st' = DOMAIN list']_vars

\* C13 happens: --update refreshed the index and pushed its entries, then
\* the retrieval of the subcommand's read() failed; the storage root holds
\* what earlier runs left.
C13_Witness ==
    /\ IndexUnavailable
    /\ cfg.update /\ cfg.cmd \in Commands
    /\ list # <<>>
    /\ fs # <<>>

----------------------------------------------------------------------------
(* The extract stage: claims C18 and C19, under Spec *)

\* C18: in the extract stage, for every item of the catalog has_bitcode
\* implies that the vector bitcode_path indexes at [0] is not empty, and so
\* no task of the stage panics before it has called output().
C18_BitcodePathValid ==
    (cfg.cmd = "build-callgraphs" /\ pc \in {"stage", "done", "panicked"}) =>
        \A i \in Tasks :
            /\ has_bitcode(list[i]) => Len(bitcode_path(list[i])) >= 1
            /\ ~(st[i] = "panicked" /\ cwd[i] = "none")

\* C19: in the extract stage an item with two or more matching artifacts is
\* reported as "no bitcode" and no tool is run for it, and the tool is only
\* ever spawned for an item with exactly one matching artifact, which is the
\* element [0] selects.
C19_ExactlyOneArtifact ==
    (cfg.cmd = "build-callgraphs" /\ pc \in {"stage", "done", "panicked"}) =>
        \A i \in Tasks :
            /\ (Artifacts(list[i]) >= 2 /\ st[i] # "idle")
                => /\ st[i] = "nobitcode"
                   /\ report[i].msg = "no bitcode"
                   /\ cwd[i] = "none" /\ exit[i] = "none"
            /\ cwd[i] # "none"
                => /\ Artifacts(list[i]) = 1
                   /\ Len(glob(list[i])) = 1

\* C19 happens: an extract run has returned in which an item with two
\* artifacts was reported as "no bitcode" and the tool was run for another
\* item, which has one.
C19_Witness ==
    /\ cfg.cmd = "build-callgraphs" /\ pc = "done"
    /\ \E i, j \in Tasks :
          /\ Artifacts(list[i]) = 2
          /\ report[i].msg = "no bitcode"
          /\ Artifacts(list[j]) = 1
          /\ exit[j] # "none"

----------------------------------------------------------------------------
(* The closure of the fetch stage: claim C20, under SpecFetch *)

\* C20: in a fetch run at most one item is between its unpack and its
\* rename, and while an item is there the next step is the end of its own
\* closure: no other item starts, is answered, unpacks, renames or fails in
\* between, though up to N requests are in flight.
C20_ClosureUninterrupted ==
    [][/\ Cardinality(InClosure) <= 1
       /\ Cardinality({i \in DOMAIN st' : st'[i] = "untar"}) <= 1
       /\ \A i \in InClosure :
            /\ st'[i] \in {"done", "failed"}
            /\ \A j \in Tasks \ {i} : st'[j] = st[j] /\ wrote'[j] = wrote[j]]_vars

\* C20 happens: N requests are in flight over a catalog longer than N; one
\* item has unpacked and not yet renamed, and the bodies of two others have
\* arrived.
C20_Witness ==
    /\ Fetching
    /\ Len(list) > N
    /\ Cardinality(InFlight) = N
    /\ \E i, j, m \in Tasks :
          /\ j # m
          /\ st[i] = "untar"
          /\ Normalize(unpacked_dir(list[i])) \in wrote[i]
          /\ st[j] = "body"
          /\ st[m] = "body"

====
